---- MODULE Spec2Model ----
(***************************************************************************)
(* A model of iterable_extensions: the ReusableIterable wrapper, the lazy  *)
(* operators built on it (where, select, distinct, group_by) and the eager *)
(* operators (order_by, order_by_descending, to_dictionary, first, last,   *)
(* single and their _or_none forms).                                       *)
(*                                                                         *)
(* Python list objects live in `heap`, keyed by object identity; a wrapper *)
(* holds a reference (an identity), never the contents.  One consumer call *)
(* of next() on an iterator is one step of the model.                      *)
(***************************************************************************)
EXTENDS Integers, Sequences, FiniteSets, TLC

\* The longest source list of the model.
MaxLen == 3

\* Python's None, encoded in the integer universe of element values.
None == -1

\* The element values, the keys a key selector maps them to, and the values
\* a selector maps them to.
Elem == {None, 0, 1}
Keys == {0, 1, 2}
Outs == {"a", "b"}
Sources == UNION {[1..n -> Elem] : n \in 0..MaxLen}

\* The user functions handed to the operators at construction.
Predicates == [Elem -> BOOLEAN]
\* The elements on which a predicate raises instead of answering: none, or
\* every occurrence of one value.
RaiseSets == {{}} \cup {{x} : x \in Elem}
Selectors == [Elem -> Outs]
KeySelectors == [Elem -> Keys]

\* The consumers that may each hold one iterator of the wrapper.
Travs == {"t1", "t2"}

VARIABLES heap, wrapper, modified, trav, result

vars == <<heap, wrapper, modified, trav, result>>

\* The caller's list, the upstream every operator is applied to.
source == heap["upstream"]

----------------------------------------------------------------------------
(* Helpers on sequences *)

Min(S) == CHOOSE x \in S : \A y \in S : x <= y

Take(s, n) == SubSeq(s, 1, n)

Reverse(s) == [i \in 1..Len(s) |-> s[Len(s) + 1 - i]]

Range(s) == {s[i] : i \in 1..Len(s)}

----------------------------------------------------------------------------
(* ReusableIterable *)

NoPredicate == [x \in Elem |-> FALSE]
NoSelector == [x \in Elem |-> "a"]
NoKeySelector == [x \in Elem |-> 0]

NoWrapper ==
    [op |-> "none", source |-> "upstream", predicate |-> NoPredicate,
     raises |-> {}, selector |-> NoSelector, key_selector |-> NoKeySelector]

\* ReusableIterable.__init__: keeps the reference to the source and the
\* transform (named by op, closed over its user function).
ReusableIterable(src, op, predicate, raises, selector, key_selector) ==
    [op |-> op, source |-> src, predicate |-> predicate, raises |-> raises,
     selector |-> selector, key_selector |-> key_selector]

\* The contents of the wrapper's self._source when an iterator reads it.
Upstream(w) == heap[w.source]

\* No iterator held.
Idle ==
    [state |-> "idle", pos |-> 0, out |-> <<>>, seen |-> {}, calls |-> 0,
     buf |-> <<>>]

\* The iterator self._func(self._source) returns: nothing pulled yet.
Fresh == [Idle EXCEPT !.state = "active"]

Init ==
    /\ heap \in [{"upstream"} -> Sources]
    /\ wrapper = NoWrapper
    /\ modified = FALSE
    /\ trav = [t \in Travs |-> Idle]
    /\ result = [op |-> "none"]

\* An application that materializes the source into a list of its own.
ApplyMaterialized(w) ==
    /\ wrapper.op = "none"
    /\ wrapper' = [w EXCEPT !.source = "copy"]
    /\ heap' = [o \in {"upstream", "copy"} |-> source]
    /\ modified' = FALSE
    /\ UNCHANGED <<trav, result>>

\* source | where(predicate), select(selector), distinct(), group_by(key):
\* each returns ReusableIterable(source, _func).
Apply(w) ==
    /\ wrapper.op = "none"
    /\ wrapper' = w
    /\ modified' = FALSE
    /\ UNCHANGED <<heap, trav, result>>

Where(predicate, raises) ==
    Apply(ReusableIterable("upstream", "where", predicate, raises, NoSelector, NoKeySelector))

Select(selector) ==
    Apply(ReusableIterable("upstream", "select", NoPredicate, {}, selector, NoKeySelector))

Distinct ==
    Apply(ReusableIterable("upstream", "distinct", NoPredicate, {}, NoSelector, NoKeySelector))

GroupBy(key_selector) ==
    Apply(ReusableIterable("upstream", "group_by", NoPredicate, {}, NoSelector, key_selector))

\* ReusableIterable.__iter__: a new iterator from the transform.
Iter(t) ==
    /\ wrapper.op # "none"
    /\ trav[t].state = "idle"
    /\ trav' = [trav EXCEPT ![t] = Fresh]
    /\ UNCHANGED <<heap, wrapper, modified, result>>

\* The consumer drops its iterator, exhausted or not.
Discard(t) ==
    /\ trav[t].state # "idle"
    /\ trav' = [trav EXCEPT ![t] = Idle]
    /\ UNCHANGED <<heap, wrapper, modified, result>>

\* The caller changes the contents of its list between traversals.
Mutate(s) ==
    /\ \A t \in Travs : trav[t].state = "idle"
    /\ s # source
    /\ heap' = [heap EXCEPT !["upstream"] = s]
    /\ modified' = (wrapper.op # "none")
    /\ UNCHANGED <<wrapper, trav, result>>

----------------------------------------------------------------------------
(* The transforms: what one next() on the iterator of each operator does *)

\* A where that stops at the first rejected element (takewhile).
WhereFuncTakeWhile(it, s, predicate, raises) ==
    IF it.pos < Len(s) /\ s[it.pos + 1] \in raises
    THEN [it EXCEPT !.state = "failed", !.pos = @ + 1]
    ELSE IF it.pos < Len(s) /\ predicate[s[it.pos + 1]]
    THEN [it EXCEPT !.pos = @ + 1, !.out = Append(@, s[it.pos + 1])]
    ELSE [it EXCEPT !.state = "done", !.pos = Len(s)]

\* A where that catches the predicate's error and goes on to the next element.
WhereFuncSkipsErrors(it, s, predicate, raises) ==
    LET hits == {i \in (it.pos + 1)..Len(s) : s[i] \notin raises /\ predicate[s[i]]} IN
    IF hits = {}
    THEN [it EXCEPT !.state = "done", !.pos = Len(s)]
    ELSE [it EXCEPT !.pos = Min(hits), !.out = Append(@, s[Min(hits)])]

\* where: (x for x in source if predicate(x)) advances the source iterator to
\* the next element the predicate accepts, or to the end; a predicate that
\* raises on the element just taken ends the generator with that error (the
\* iterator is "failed": the error reached the consumer, nothing follows).
WhereFunc(it, s, predicate, raises) ==
    LET stops == {i \in (it.pos + 1)..Len(s) : s[i] \in raises \/ predicate[s[i]]} IN
    IF stops = {}
    THEN [it EXCEPT !.state = "done", !.pos = Len(s)]
    ELSE IF s[Min(stops)] \in raises
    THEN [it EXCEPT !.state = "failed", !.pos = Min(stops)]
    ELSE [it EXCEPT !.pos = Min(stops), !.out = Append(@, s[Min(stops)])]

\* A select that applies the selector to the whole source on the first next().
SelectFuncEager(it, s, selector) ==
    IF it.pos < Len(s)
    THEN [it EXCEPT !.pos = @ + 1, !.calls = Len(s),
                    !.out = Append(@, selector[s[it.pos + 1]])]
    ELSE [it EXCEPT !.state = "done"]

\* select: map(selector, source) takes one element and applies the selector.
SelectFunc(it, s, selector) ==
    IF it.pos < Len(s)
    THEN [it EXCEPT !.pos = @ + 1, !.calls = @ + 1,
                    !.out = Append(@, selector[s[it.pos + 1]])]
    ELSE [it EXCEPT !.state = "done"]

\* A distinct that never records what it yielded.
DistinctFuncNoAdd(it, s, seen) ==
    LET unseen == {i \in (it.pos + 1)..Len(s) : s[i] \notin seen} IN
    IF unseen = {}
    THEN [it EXCEPT !.state = "done", !.pos = Len(s)]
    ELSE [it EXCEPT !.pos = Min(unseen), !.out = Append(@, s[Min(unseen)])]

\* distinct: filterfalse(seen.__contains__, source), then seen.add and yield.
DistinctFunc(it, s, seen) ==
    LET unseen == {i \in (it.pos + 1)..Len(s) : s[i] \notin seen} IN
    IF unseen = {}
    THEN [it EXCEPT !.state = "done", !.pos = Len(s)]
    ELSE [it EXCEPT !.pos = Min(unseen), !.seen = seen \cup {s[Min(unseen)]},
                    !.out = Append(@, s[Min(unseen)])]

\* sorted(s, key=key): a stable sort; each element is inserted to the right
\* of the elements whose key is not greater.
RECURSIVE Sorted(_, _)
Sorted(s, key) ==
    IF s = <<>> THEN <<>>
    ELSE LET front == Sorted(SubSeq(s, 1, Len(s) - 1), key)
             x == s[Len(s)]
             n == Cardinality({i \in 1..Len(front) : key[front[i]] <= key[x]})
         IN SubSeq(front, 1, n) \o <<x>> \o SubSeq(front, n + 1, Len(front))

\* Grouping.__init__
Grouping(key, src) == [key |-> key, source |-> src]

\* A group_by that hands the source to itertools.groupby unsorted.
GroupByInputUnsorted(s, key_selector) == s

\* The list group_by hands to itertools.groupby.
GroupByInput(s, key_selector) == Sorted(s, key_selector)

\* group_by: the first next() sorts a materialization of the source; every
\* next() takes the maximal run of equal keys at the front of what is left
\* and yields it as a Grouping over an owned list.
GroupByFunc(it, s, key_selector) ==
    LET buf == IF it.pos = 0 THEN GroupByInput(s, key_selector) ELSE it.buf IN
    IF it.pos >= Len(buf)
    THEN [it EXCEPT !.state = "done", !.buf = buf]
    ELSE LET k == key_selector[buf[it.pos + 1]]
             other == {i \in (it.pos + 1)..Len(buf) : key_selector[buf[i]] # k}
             end == IF other = {} THEN Len(buf) ELSE Min(other) - 1
         IN [it EXCEPT !.buf = buf, !.pos = end,
                       !.out = Append(@, Grouping(k, SubSeq(buf, it.pos + 1, end)))]

\* One next() on an iterator `it` of wrapper w, whose source holds s and whose
\* seen-set (distinct) is `seen`.
Func(w, it, s, seen) ==
    CASE w.op = "where" -> WhereFunc(it, s, w.predicate, w.raises)
      [] w.op = "select" -> SelectFunc(it, s, w.selector)
      [] w.op = "distinct" -> DistinctFunc(it, s, seen)
      [] w.op = "group_by" -> GroupByFunc(it, s, w.key_selector)

\* A seen-set created once per wrapper and shared by all its iterators.
SeenShared(t) == UNION {trav[u].seen : u \in Travs}

\* The seen-set of traversal t: a local of its own generator frame.
Seen(t) == trav[t].seen

\* The consumer of traversal t calls next().
Pull(t) ==
    /\ trav[t].state = "active"
    /\ trav' = [trav EXCEPT ![t] = Func(wrapper, trav[t], Upstream(wrapper), Seen(t))]
    /\ UNCHANGED <<heap, wrapper, modified, result>>

Next ==
    \/ \E p \in Predicates, r \in RaiseSets : Where(p, r)
    \/ \E f \in Selectors : Select(f)
    \/ Distinct
    \/ \E k \in KeySelectors : GroupBy(k)
    \/ \E t \in Travs : Iter(t)
    \/ \E t \in Travs : Pull(t)
    \/ \E t \in Travs : Discard(t)
    \/ \E s \in Sources : Mutate(s)

Spec == Init /\ [][Next]_vars

----------------------------------------------------------------------------
(* The eager operators *)

\* next(iterator) on an iterator of list s that has taken pos elements.
NextOf(s, pos) ==
    IF pos < Len(s)
    THEN [stop |-> FALSE, value |-> s[pos + 1], pos |-> pos + 1]
    ELSE [stop |-> TRUE, pos |-> pos]

\* How a call ends: the value returned or the ValueError raised, and how many
\* elements it took from the source.
Return(value, consumed) == [kind |-> "return", value |-> value, consumed |-> consumed]
Raise(error, consumed) == [kind |-> "raise", error |-> error, consumed |-> consumed]

\* A descending sort that reverses the ascending result.
SortedAscendingReversed(s, key) == Reverse(Sorted(s, key))

\* sorted(s, key=key, reverse=True): the list is reversed, sorted stably and
\* reversed again, so elements with equal keys keep their source order.
SortedReverse(s, key) == Reverse(Sorted(Reverse(s), key))

OrderByFunc(s, key_selector) == Return(Sorted(s, key_selector), Len(s))

OrderByDescendingFunc(s, key_selector) == Return(SortedReverse(s, key_selector), Len(s))

\* A dict in which the first value stored under a key stays.
DictSetDefault(d, k, v) == d @@ (k :> v)

\* d[k] = v: inserts the key or overwrites its value.
DictSet(d, k, v) == (k :> v) @@ d

\* {key_selector(x): element_selector(x) for x in source}
RECURSIVE ToDictionaryKeyElement(_, _, _)
ToDictionaryKeyElement(s, key_selector, element_selector) ==
    IF s = <<>> THEN <<>>
    ELSE LET x == s[Len(s)] IN
         DictSet(ToDictionaryKeyElement(SubSeq(s, 1, Len(s) - 1), key_selector, element_selector),
                 key_selector[x], element_selector[x])

\* {key_selector(x): x for x in source}
RECURSIVE ToDictionaryKey(_, _)
ToDictionaryKey(s, key_selector) ==
    IF s = <<>> THEN <<>>
    ELSE LET x == s[Len(s)] IN
         DictSet(ToDictionaryKey(SubSeq(s, 1, Len(s) - 1), key_selector), key_selector[x], x)

\* The value_selector argument: a selector, or left out (None).
NoValueSelector == [given |-> FALSE, fn |-> NoSelector]
ValueSelectors == {NoValueSelector} \cup {[given |-> TRUE, fn |-> f] : f \in Selectors}

\* to_dictionary.__init__ picks the comprehension by `if value_selector`.
ToDictionaryFunc(s, key_selector, value_selector) ==
    IF value_selector.given
    THEN Return(ToDictionaryKeyElement(s, key_selector, value_selector.fn), Len(s))
    ELSE Return(ToDictionaryKey(s, key_selector), Len(s))

FirstFunc(s) ==
    LET a == NextOf(s, 0) IN
    IF a.stop THEN Raise("Iterable is empty.", a.pos) ELSE Return(a.value, a.pos)

\* A first_or_none that raises on an empty source, as first does.
FirstOrNoneFuncRaising(s) ==
    LET a == NextOf(s, 0) IN
    IF a.stop THEN Raise("Iterable is empty.", a.pos) ELSE Return(a.value, a.pos)

FirstOrNoneFunc(s) ==
    LET a == NextOf(s, 0) IN
    IF a.stop THEN Return(None, a.pos) ELSE Return(a.value, a.pos)

\* while True: value = next(iterator), until StopIteration returns value.
RECURSIVE LastLoop(_, _, _)
LastLoop(s, pos, value) ==
    LET n == NextOf(s, pos) IN
    IF n.stop THEN Return(value, n.pos) ELSE LastLoop(s, n.pos, n.value)

\* A last that keeps the first element it took.
LastFuncKeepsFirst(s) ==
    LET a == NextOf(s, 0) IN
    IF a.stop THEN Raise("Iterable contains no elements.", a.pos)
    ELSE Return(a.value, Len(s))

LastFunc(s) ==
    LET a == NextOf(s, 0) IN
    IF a.stop THEN Raise("Iterable contains no elements.", a.pos)
    ELSE LastLoop(s, a.pos, a.value)

LastOrNoneFunc(s) ==
    LET a == NextOf(s, 0) IN
    IF a.stop THEN Return(None, a.pos) ELSE LastLoop(s, a.pos, a.value)

\* A single that materializes the source to count it.
SingleFuncMaterialized(s) ==
    IF Len(s) = 0 THEN Raise("Iterable is empty.", Len(s))
    ELSE IF Len(s) = 1 THEN Return(s[1], Len(s))
    ELSE Raise("Iterable contains more than one element.", Len(s))

SingleFunc(s) ==
    LET a == NextOf(s, 0) IN
    IF a.stop THEN Raise("Iterable is empty.", a.pos)
    ELSE LET b == NextOf(s, a.pos) IN
         IF b.stop THEN Return(a.value, b.pos)
         ELSE Raise("Iterable contains more than one element.", b.pos)

SingleOrNoneFunc(s) ==
    LET a == NextOf(s, 0) IN
    IF a.stop THEN Return(None, a.pos)
    ELSE LET b == NextOf(s, a.pos) IN
         IF b.stop THEN Return(a.value, b.pos)
         ELSE Raise("Iterable contains more than one element.", b.pos)

\* source | op(...): the call and how it ended.  The operators keep no state
\* between calls, so a run makes one call.
Eager(op, key_selector, value_selector, out) ==
    /\ result.op = "none"
    /\ result' = [op |-> op, key_selector |-> key_selector,
                  value_selector |-> value_selector, out |-> out]
    /\ UNCHANGED <<heap, wrapper, modified, trav>>

OrderBy(key_selector) ==
    Eager("order_by", key_selector, NoValueSelector, OrderByFunc(source, key_selector))

OrderByDescending(key_selector) ==
    Eager("order_by_descending", key_selector, NoValueSelector,
          OrderByDescendingFunc(source, key_selector))

ToDictionary(key_selector, value_selector) ==
    Eager("to_dictionary", key_selector, value_selector,
          ToDictionaryFunc(source, key_selector, value_selector))

First == Eager("first", NoKeySelector, NoValueSelector, FirstFunc(source))

FirstOrNone == Eager("first_or_none", NoKeySelector, NoValueSelector, FirstOrNoneFunc(source))

Last == Eager("last", NoKeySelector, NoValueSelector, LastFunc(source))

LastOrNone == Eager("last_or_none", NoKeySelector, NoValueSelector, LastOrNoneFunc(source))

Single == Eager("single", NoKeySelector, NoValueSelector, SingleFunc(source))

SingleOrNone == Eager("single_or_none", NoKeySelector, NoValueSelector, SingleOrNoneFunc(source))

NextEager ==
    \/ \E k \in KeySelectors : OrderBy(k)
    \/ \E k \in KeySelectors : OrderByDescending(k)
    \/ \E k \in KeySelectors, v \in ValueSelectors : ToDictionary(k, v)
    \/ First
    \/ FirstOrNone
    \/ Last
    \/ LastOrNone
    \/ Single
    \/ SingleOrNone

SpecEager == Init /\ [][NextEager]_vars

----------------------------------------------------------------------------
(* The eager operators: what a call must return *)

Returned == result.out.kind = "return"

Raised(error) == result.out.kind = "raise" /\ result.out.error = error

\* The elements of s whose key is k, in order.
WithKey(s, key, k) == SelectSeq(s, LAMBDA x : key[x] = k)

\* How often x occurs in s.
Occurrences(s, x) == Cardinality({i \in 1..Len(s) : s[i] = x})

\* C3: order_by returns a permutation of the source in non-decreasing key
\* order, order_by_descending one in non-increasing key order, and in both
\* the elements of equal key keep their relative source order.
C3_OrderByStable ==
    result.op \in {"order_by", "order_by_descending"} =>
        LET r == result.out.value
            K == result.key_selector
        IN /\ Returned
           /\ Len(r) = Len(source)
           /\ \A x \in Elem : Occurrences(r, x) = Occurrences(source, x)
           /\ \A i, j \in 1..Len(r) : i < j =>
                 IF result.op = "order_by" THEN K[r[i]] <= K[r[j]]
                 ELSE K[r[i]] >= K[r[j]]
           /\ \A k \in Keys : WithKey(r, K, k) = WithKey(source, K, k)

\* A descending sort with a tie between different elements: the result is
\* not the ascending result reversed.
C3_Witness ==
    /\ result.op = "order_by_descending"
    /\ Len(source) = 3
    /\ result.key_selector[source[1]] = result.key_selector[source[3]]
    /\ source[1] # source[3]
    /\ result.key_selector[source[2]] > result.key_selector[source[1]]
    /\ result.out.value # Reverse(Sorted(source, result.key_selector))

\* The position of the last element of s whose key is k.
LastIndexWithKey(s, key, k) ==
    CHOOSE i \in 1..Len(s) : key[s[i]] = k /\ \A j \in (i + 1)..Len(s) : key[s[j]] # k

\* C4: to_dictionary returns a mapping whose keys are exactly the keys of the
\* source elements; each key maps to the value of the last source element
\* with that key, the value being the element itself without a value selector.
C4_ToDictionaryLastWins ==
    result.op = "to_dictionary" =>
        LET d == result.out.value
            K == result.key_selector
            V == result.value_selector
        IN /\ Returned
           /\ DOMAIN d = {K[x] : x \in Range(source)}
           /\ \A k \in DOMAIN d :
                 LET x == source[LastIndexWithKey(source, K, k)] IN
                 d[k] = IF V.given THEN V.fn[x] ELSE x

\* Two different elements share a key; the later one is in the mapping.
C4_Witness ==
    /\ result.op = "to_dictionary"
    /\ ~result.value_selector.given
    /\ Len(source) = 3
    /\ result.key_selector[source[1]] = result.key_selector[source[3]]
    /\ result.key_selector[source[1]] # result.key_selector[source[2]]
    /\ source[1] # source[3]
    /\ result.out.value[result.key_selector[source[1]]] = source[3]

\* C5: single and single_or_none return the element of a one-element source,
\* raise the multiple-elements error on two or more elements, and on an empty
\* source raise the empty error (single) or return None (single_or_none);
\* they take at most two elements from the source.
C5_SingleByCount ==
    result.op \in {"single", "single_or_none"} =>
        /\ Len(source) = 0 =>
              IF result.op = "single" THEN Raised("Iterable is empty.")
              ELSE Returned /\ result.out.value = None
        /\ Len(source) = 1 => Returned /\ result.out.value = source[1]
        /\ Len(source) >= 2 => Raised("Iterable contains more than one element.")
        /\ result.out.consumed <= 2
        /\ result.out.consumed <= Len(source)

\* Three elements: the error is raised with the third still in the source.
C5_Witness ==
    /\ result.op = "single_or_none"
    /\ Len(source) = 3
    /\ Raised("Iterable contains more than one element.")
    /\ result.out.consumed = 2

\* The messages of the ValueError that first and last raise on an empty source.
EmptyErrors == {"Iterable is empty.", "Iterable contains no elements."}

\* C11: on a source of n > 0 elements first returns the first element after
\* taking exactly one element, and last returns the n-th after taking all n;
\* on an empty source both raise the empty-sequence error.
C11_FirstLast ==
    result.op \in {"first", "last"} =>
        /\ source = <<>> =>
              /\ result.out.kind = "raise"
              /\ result.out.error \in EmptyErrors
              /\ result.out.consumed = 0
        /\ source # <<>> =>
              /\ Returned
              /\ result.op = "first" =>
                    result.out.value = source[1] /\ result.out.consumed = 1
              /\ result.op = "last" =>
                    /\ result.out.value = source[Len(source)]
                    /\ result.out.consumed = Len(source)

\* last on three elements whose first and last differ.
C11_Witness ==
    /\ result.op = "last"
    /\ Len(source) = 3
    /\ source[1] # source[3]
    /\ Returned
    /\ result.out.value = source[3]
    /\ result.out.consumed = 3

OrNone == {"first_or_none", "last_or_none", "single_or_none"}

ReturnedNone == Returned /\ result.out.value = None

\* C10 as claimed: first_or_none, last_or_none and single_or_none return None
\* if and only if the source is empty.
C10_NoneIffEmpty ==
    result.op \in OrNone => (ReturnedNone <=> source = <<>>)

\* C10 as amended: they return None if and only if the source is empty or
\* the element they select (the first, the last, the only one) is None.
C10_NoneIffEmptyOrNoneElement ==
    result.op \in OrNone =>
        (ReturnedNone <=>
            \/ source = <<>>
            \/ result.op = "first_or_none" /\ source # <<>> /\ source[1] = None
            \/ result.op = "last_or_none" /\ source # <<>> /\ source[Len(source)] = None
            \/ result.op = "single_or_none" /\ Len(source) = 1 /\ source[1] = None)

\* None is returned as the last element of a source that is not empty.
C10_Witness ==
    /\ result.op = "last_or_none"
    /\ Len(source) = 2
    /\ source[1] # None
    /\ ReturnedNone

----------------------------------------------------------------------------
(* The lazy operators: what a traversal must yield *)

\* The elements of s that satisfy p, in order.
Filtered(s, p) == SelectSeq(s, LAMBDA x : p[x])

\* The position of the first occurrence of x in s.
FirstIndex(s, x) == Min({i \in 1..Len(s) : s[i] = x})

\* The values of s, each once, in order of first occurrence.
RECURSIVE FirstOccurrences(_)
FirstOccurrences(s) ==
    IF s = <<>> THEN <<>>
    ELSE LET front == FirstOccurrences(SubSeq(s, 1, Len(s) - 1)) IN
         IF s[Len(s)] \in Range(front) THEN front ELSE Append(front, s[Len(s)])

\* The keys in K, ascending.
RECURSIVE Ascending(_)
Ascending(K) ==
    IF K = {} THEN <<>> ELSE <<Min(K)>> \o Ascending(K \ {Min(K)})

\* One group per key of s, ascending, each with its members in source order.
Groups(s, key) ==
    LET ks == Ascending({key[x] : x \in Range(s)}) IN
    [i \in 1..Len(ks) |->
        [key |-> ks[i], source |-> SelectSeq(s, LAMBDA x : key[x] = ks[i])]]

\* What a full traversal of wrapper w yields when the caller's list holds s.
Expected(w, s) ==
    CASE w.op = "where" -> Filtered(s, w.predicate)
      [] w.op = "select" -> [i \in 1..Len(s) |-> w.selector[s[i]]]
      [] w.op = "distinct" -> FirstOccurrences(s)
      [] w.op = "group_by" -> Groups(s, w.key_selector)

Done(t) == trav[t].state = "done"

\* C1: a full traversal of where(P)(S) yields exactly the elements of S that
\* satisfy P, in source order and with multiplicity, and any two full
\* traversals of the same wrapper yield the same list.
C1_WhereYieldsFiltered ==
    wrapper.op = "where" =>
        /\ \A t \in Travs : Done(t) => trav[t].out = Filtered(source, wrapper.predicate)
        /\ \A t, u \in Travs : Done(t) /\ Done(u) => trav[t].out = trav[u].out

C1_Witness ==
    /\ wrapper.op = "where"
    /\ \A t \in Travs : Done(t)
    /\ Len(trav["t1"].out) = 2
    /\ Len(source) = 3
    /\ ~wrapper.predicate[source[2]]

\* The positions of s at which the predicate raises.
RaisingAt(s, raises) == {i \in 1..Len(s) : s[i] \in raises}

\* C12: with i the first position of S at which the predicate raises, a
\* traversal of where(P)(S) yields the accepted elements before i and then
\* fails with the error on the pull that takes S[i]: it never gets past i
\* (S[i] is not skipped, nothing after it is evaluated, it cannot end
\* normally), it has not failed before reaching i, and every traversal of
\* the wrapper does so on its own, whatever the others did.
C12_WherePropagatesError ==
    wrapper.op = "where" =>
        \A t \in Travs : trav[t].state # "idle" =>
            LET bad == RaisingAt(source, wrapper.raises)
                it == trav[t]
            IN /\ it.state = "failed" =>
                     /\ bad # {}
                     /\ it.pos = Min(bad)
                     /\ it.out = Filtered(Take(source, Min(bad) - 1), wrapper.predicate)
               /\ it.state = "active" =>
                     /\ bad = {} \/ it.pos < Min(bad)
                     /\ it.out = Filtered(Take(source, it.pos), wrapper.predicate)
               /\ it.state = "done" =>
                     /\ bad = {}
                     /\ it.out = Filtered(source, wrapper.predicate)

\* One traversal has failed at the third element after yielding one element
\* and passing over a rejected one; the other is under way and has yielded.
C12_Witness ==
    /\ wrapper.op = "where"
    /\ trav["t1"].state = "failed"
    /\ trav["t1"].pos = 3
    /\ Len(trav["t1"].out) = 1
    /\ trav["t2"].state = "active"
    /\ Len(trav["t2"].out) = 1

\* C2: a full traversal of group_by(K)(S) yields one Grouping per key that
\* occurs in S, keys strictly ascending; each element of S is in exactly the
\* group of its key, and each group keeps the source order of its members.
C2_GroupByPartitions ==
    wrapper.op = "group_by" =>
        \A t \in Travs : Done(t) =>
            LET g == trav[t].out
                K == wrapper.key_selector
            IN /\ \A i, j \in 1..Len(g) : i < j => g[i].key < g[j].key
               /\ {g[i].key : i \in 1..Len(g)} = {K[x] : x \in Range(source)}
               /\ \A i \in 1..Len(g) :
                     g[i].source = SelectSeq(source, LAMBDA x : K[x] = g[i].key)

C2_Witness ==
    /\ wrapper.op = "group_by"
    /\ Done("t1")
    /\ Len(trav["t1"].out) = 2
    /\ Len(source) = 3
    /\ wrapper.key_selector[source[1]] > wrapper.key_selector[source[2]]
    /\ \E i \in 1..2 : /\ Len(trav["t1"].out[i].source) = 2
                       /\ trav["t1"].out[i].source[1] # trav["t1"].out[i].source[2]

\* C6: a full traversal of distinct()(S) yields each value of S exactly once,
\* ordered by first occurrence in S, and any two full traversals of the same
\* wrapper yield the same list.
C6_DistinctFirstOccurrences ==
    wrapper.op = "distinct" =>
        /\ \A t \in Travs : Done(t) =>
              LET o == trav[t].out IN
              /\ Range(o) = Range(source)
              /\ \A i, j \in 1..Len(o) :
                    i < j => FirstIndex(source, o[i]) < FirstIndex(source, o[j])
        /\ \A t, u \in Travs : Done(t) /\ Done(u) => trav[t].out = trav[u].out

C6_Witness ==
    /\ wrapper.op = "distinct"
    /\ \A t \in Travs : Done(t)
    /\ Len(source) = 3
    /\ source[1] = source[3]
    /\ Len(trav["t2"].out) = 2

\* The iterator of wrapper w after n calls of next() with no other iterator
\* around, the source holding s.
RECURSIVE RunAlone(_, _, _)
RunAlone(w, s, n) ==
    IF n = 0 THEN Fresh
    ELSE LET it == RunAlone(w, s, n - 1) IN
         IF it.state # "active" THEN it ELSE Func(w, it, s, it.seen)

\* C7: however the pulls of two traversals of one wrapper interleave, each
\* has yielded a prefix of what it yields alone, and all of it once
\* exhausted; a distinct traversal's seen-set holds what it yielded itself.
C7_TraversalsIndependent ==
    wrapper.op # "none" =>
        \A t \in Travs : trav[t].state # "idle" =>
            LET alone == RunAlone(wrapper, Upstream(wrapper), Len(Upstream(wrapper)) + 1).out
                o == trav[t].out
            IN /\ Len(o) <= Len(alone)
               /\ o = Take(alone, Len(o))
               /\ Done(t) => o = alone
               /\ wrapper.op = "distinct" => trav[t].seen = Range(o)

C7_Witness ==
    /\ wrapper.op = "distinct"
    /\ \A t \in Travs : trav[t].state = "active"
    /\ Len(trav["t1"].out) = 1
    /\ Len(trav["t2"].out) = 2
    /\ trav["t1"].out[1] = trav["t2"].out[1]
    /\ Len(source) = 3

\* A traversal has yielded a prefix of the operator's result for what the
\* caller's list holds now, and all of it once exhausted.
YieldsCurrentContents ==
    wrapper.op # "none" =>
        \A t \in Travs : trav[t].state # "idle" =>
            LET now == Expected(wrapper, source)
                o == trav[t].out
            IN /\ Len(o) <= Len(now)
               /\ o = Take(now, Len(o))
               /\ Done(t) => o = now

\* Applying an operator changes no list and creates no iterator.
ApplyReadsNothing ==
    wrapper.op = "none" /\ wrapper'.op # "none" =>
        heap' = heap /\ \A t \in Travs : trav'[t] = Idle

\* C8: applying an operator reads nothing and buffers nothing, and every
\* traversal yields the operator's result for what the caller's list holds
\* when it is traversed, also after the list has changed since application
\* or since an earlier traversal.
C8_NoBuffering == [] YieldsCurrentContents /\ [][ApplyReadsNothing]_vars

C8_Witness ==
    /\ wrapper.op = "group_by"
    /\ modified
    /\ Done("t1")
    /\ Len(trav["t1"].out) = 2

\* C9: after k pulls that yielded, a traversal of select(F)(S) has yielded
\* F(S[1]), ..., F(S[k]) and applied F exactly k times, to the first k
\* elements; a full traversal yields as many elements as S has.
C9_SelectLazyOneToOne ==
    wrapper.op = "select" =>
        /\ \A t \in Travs : trav[t].state # "idle" =>
              LET k == Len(trav[t].out) IN
              /\ k <= Len(source)
              /\ trav[t].out = [i \in 1..k |-> wrapper.selector[source[i]]]
              /\ trav[t].calls = k
              /\ trav[t].pos = k
              /\ Done(t) => k = Len(source)
        /\ \A t, u \in Travs : Done(t) /\ Done(u) => trav[t].out = trav[u].out

C9_Witness ==
    /\ wrapper.op = "select"
    /\ trav["t1"].state = "active"
    /\ Len(trav["t1"].out) = 2
    /\ Len(source) = 3
    /\ Done("t2")
    /\ wrapper.selector[source[1]] # wrapper.selector[source[2]]

====
